---- MODULE Spec2Model ----
(***************************************************************************)
(* A model of the zerrors package: the generic error node Error[T], its    *)
(* builder methods, the chain walking helpers As and HasCode, the log      *)
(* projection LogValue and the stack snapshot captured by New.             *)
(*                                                                         *)
(* Go strings are sequences of tokens, so that formatting and rendering    *)
(* are real concatenations.  Error nodes live on a heap indexed 1..nNodes; *)
(* an error interface value is Nil, a reference to a node, or a plain      *)
(* error that only carries a message (errors.New, fmt.Errorf).             *)
(***************************************************************************)
EXTENDS Integers, Sequences, FiniteSets, TLC

\* ---- bounds of the model -------------------------------------------------
MaxNodes == 2
MaxOps == 4

\* ---- program constants ---------------------------------------------------
defaultStackDepth == 32

\* ---- input domains -------------------------------------------------------
CodeTypes == {"domainErr", "dbErr"}
Codes == {<<"a">>, <<"b">>}
\* the (type, code) pairs New is called with: two codes of one type, and a
\* code of another type that is textually equal to one of them
NewInputs == {<<"domainErr", <<"a">>>>, <<"domainErr", <<"b">>>>, <<"dbErr", <<"a">>>>}
TagSet == {"t1", "t2"}
\* the argument lists Tags and HasTags are called with
TagInputs == {{}, {"t1"}, {"t2"}}
Keys == {"k1"}
Values == {"v1", "v2"}
PlainMsgs == {<<"m">>}
\* (format, args) pairs given to Errorf: well formed, missing argument, extra argument
ErrorfInputs == {<<<<"q", "%s">>, <<<<"x">>>>>>, <<<<"%s">>, <<>>>>}

fRuntime == [file |-> <<"/usr", "/go/src/", "runtime/", "proc.go">>, function |-> <<"runtime", ".", "main">>, line |-> 3]
fTest == [file |-> <<"/w/", "z", "_test.go">>, function |-> <<"gh", "/", "zerrors_test", ".", "Test_Tags">>, line |-> 7]
fMain == [file |-> <<"/home", "/go/src/", "app/", "main.go">>, function |-> <<"gh", "/", "app", ".", "findUser">>, line |-> 25]
fAnon == [file |-> <<"app/", "x.go">>, function |-> <<>>, line |-> 4]
\* what runtime.Callers may report to captureStack
CallerInputs == {<<>>, <<fRuntime, fMain, fTest, fAnon>>}

Nil == [k |-> "nil"]
NodeRef(n) == [k |-> "node", id |-> n]
Plain(msg) == [k |-> "plain", msg |-> msg]

VARIABLES
  nNodes,      \* the number of nodes New has made; node ids are 1..nNodes
  ctype,       \* ctype[e]: the type parameter T of node e
  code,        \* code[e]: e.code
  wrappedErr,  \* wrappedErr[e]: e.wrappedErr
  tags,        \* tags[e]: the elements of e.tags
  data,        \* data[e]: e.data, a function on the keys present
  stack,       \* stack[e]: e.stack
  nOps,        \* the number of builder calls made so far
  ret,         \* the last call and what it returned
  lastWith     \* history: lastWith[e][k] is the value of the latest e.With(k, v), or "none"

vars == <<nNodes, ctype, code, wrappedErr, tags, data, stack, nOps, ret, lastWith>>
heap == <<nNodes, ctype, code, wrappedErr, tags, data, stack, nOps, lastWith>>

Live == 1..nNodes

Min(a, b) == IF a < b THEN a ELSE b

\* ---- strings -------------------------------------------------------------
\* strings.Contains / strings.Index / strings.LastIndex on token sequences;
\* an index of 0 stands for Go's -1
Contains(s, tok) == \E i \in 1..Len(s) : s[i] = tok

Index(s, tok) == IF Contains(s, tok) THEN CHOOSE i \in 1..Len(s) : s[i] = tok /\ \A j \in 1..(i - 1) : s[j] # tok ELSE 0

LastIndex(s, tok) == IF Contains(s, tok) THEN CHOOSE i \in 1..Len(s) : s[i] = tok /\ \A j \in (i + 1)..Len(s) : s[j] # tok ELSE 0

RECURSIVE ExtraArgs(_)
ExtraArgs(a) == IF Len(a) = 1 THEN <<"string=">> \o Head(a) ELSE <<"string=">> \o Head(a) \o <<", ">> \o ExtraArgs(Tail(a))

\* fmt.Sprintf restricted to the verb %s with string arguments
RECURSIVE Sprintf(_, _)
Sprintf(format, a) ==
  IF format = <<>>
    THEN IF a = <<>> THEN <<>> ELSE <<"%!(EXTRA ">> \o ExtraArgs(a) \o <<")">>
    ELSE IF Head(format) = "%s"
           THEN IF a = <<>>
                  THEN <<"%!s(MISSING)">> \o Sprintf(Tail(format), a)
                  ELSE Head(a) \o Sprintf(Tail(format), Tail(a))
           ELSE <<Head(format)>> \o Sprintf(Tail(format), a)

\* ---- stack.go ------------------------------------------------------------
NoStack == [k |-> "nil"]

trimGoPath(path) == LET i == LastIndex(path, "/go/src/") IN IF i # 0 THEN SubSeq(path, i + 1, Len(path)) ELSE path

trimFuncName(name) ==
  LET i == LastIndex(name, "/")
      n1 == IF i # 0 THEN SubSeq(name, i + 1, Len(name)) ELSE name
      j == Index(n1, ".")
  IN IF j # 0 THEN SubSeq(n1, j + 1, Len(n1)) ELSE n1

RECURSIVE keepFrames(_)
keepFrames(fs) ==
  IF fs = <<>> THEN <<>>
  ELSE IF Contains(Head(fs).file, "runtime/") \/ Contains(Head(fs).file, "_test.go")
         THEN keepFrames(Tail(fs))
         ELSE <<[file |-> trimGoPath(Head(fs).file), function |-> trimFuncName(Head(fs).function), line |-> Head(fs).line]>> \o keepFrames(Tail(fs))

\* callers: the frames runtime.Callers reports above the skipped ones
captureStack(callers) ==
  LET n == Min(Len(callers), defaultStackDepth)
  IN IF n = 0 THEN NoStack ELSE [k |-> "stack", frames |-> keepFrames(SubSeq(callers, 1, n))]

frameString(f) ==
  IF f.function # <<>>
    THEN f.file \o <<":", ToString(f.line), " ">> \o f.function \o <<"()">>
    ELSE f.file \o <<":", ToString(f.line)>>

RECURSIVE framesString(_)
framesString(fs) == IF fs = <<>> THEN <<>> ELSE <<"\n    at ">> \o frameString(Head(fs)) \o framesString(Tail(fs))

stackString(s) == framesString(s.frames)

\* ---- the state -----------------------------------------------------------
Init ==
  /\ nNodes = 0
  /\ ctype = <<>>
  /\ code = <<>>
  /\ wrappedErr = <<>>
  /\ tags = <<>>
  /\ data = <<>>
  /\ stack = <<>>
  /\ nOps = 0
  /\ ret = [op |-> "init"]
  /\ lastWith = <<>>

\* the error values a caller can pass: nil, a node, or a foreign plain error
ErrValues == {Nil} \cup {NodeRef(n) : n \in Live} \cup {Plain(m) : m \in PlainMsgs}

\* ---- builders ------------------------------------------------------------
New(T, c, callers) ==
  /\ nNodes < MaxNodes
  /\ nOps < MaxOps
  /\ nNodes' = nNodes + 1
  /\ ctype' = Append(ctype, T)
  /\ code' = Append(code, c)
  /\ wrappedErr' = Append(wrappedErr, Nil)
  /\ data' = Append(data, << >>)
  /\ tags' = Append(tags, {})
  /\ stack' = Append(stack, captureStack(callers))
  /\ nOps' = nOps + 1
  /\ ret' = [op |-> "New", e |-> nNodes + 1]
  /\ lastWith' = Append(lastWith, [k \in Keys |-> "none"])

\* a With that keeps the first value written under a key
MapPut_KeepFirst(m, k, v) == IF k \in DOMAIN m THEN m ELSE [x \in (DOMAIN m) \cup {k} |-> IF x = k THEN v ELSE m[x]]

\* e.data[k] = v on a Go map
MapPut(m, k, v) == [x \in (DOMAIN m) \cup {k} |-> IF x = k THEN v ELSE m[x]]

With(e, k, v) ==
  /\ nOps < MaxOps
  /\ data' = [data EXCEPT ![e] = MapPut(@, k, v)]
  /\ nOps' = nOps + 1
  /\ ret' = [op |-> "With", e |-> e, key |-> k, val |-> v]
  /\ lastWith' = [lastWith EXCEPT ![e][k] = v]
  /\ UNCHANGED <<nNodes, ctype, code, wrappedErr, tags, stack>>

Tags(e, ts) ==
  /\ nOps < MaxOps
  /\ tags' = [tags EXCEPT ![e] = @ \cup ts]
  /\ nOps' = nOps + 1
  /\ ret' = [op |-> "Tags", e |-> e, tags |-> ts]
  /\ UNCHANGED <<nNodes, ctype, code, wrappedErr, data, stack, lastWith>>

\* the values of the tag set; their order is not significant
GetTags(e) == tags[e]

HasTags(e, ts) == ts \subseteq tags[e]

\* a WithError that forgets to propagate the tags of the cause
WithErrorTags_NoPropagation(e, err) == tags[e]

\* a WithError that overwrites the tag set with the tags of the cause
WithErrorTags_Overwrite(e, err) == IF err.k = "node" THEN GetTags(err.id) ELSE tags[e]

\* the tag set of e after e.WithError(err)
WithErrorTags(e, err) == IF err.k = "node" THEN tags[e] \cup GetTags(err.id) ELSE tags[e]

\* an assignment that stores the receiver itself as the cause
SetWrapped_Self(e, err) == [wrappedErr EXCEPT ![e] = NodeRef(e)]

\* e.wrappedErr = err
SetWrapped(e, err) == [wrappedErr EXCEPT ![e] = err]

\* ret.old is the cause the call replaced
WithError(e, err) ==
  /\ nOps < MaxOps
  /\ wrappedErr' = SetWrapped(e, err)
  /\ tags' = [tags EXCEPT ![e] = WithErrorTags(e, err)]
  /\ nOps' = nOps + 1
  /\ ret' = [op |-> "WithError", e |-> e, err |-> err, old |-> wrappedErr[e]]
  /\ UNCHANGED <<nNodes, ctype, code, data, stack, lastWith>>

Errorf(e, format, a) ==
  /\ nOps < MaxOps
  /\ wrappedErr' = SetWrapped(e, Plain(Sprintf(format, a)))
  /\ nOps' = nOps + 1
  /\ ret' = [op |-> "Errorf", e |-> e, format |-> format, args |-> a, old |-> wrappedErr[e]]
  /\ UNCHANGED <<nNodes, ctype, code, data, tags, stack, lastWith>>

\* ---- readers -------------------------------------------------------------
Code(e) == code[e]

Get(e, key) == IF key \in DOMAIN data[e] THEN [val |-> data[e][key], ok |-> TRUE] ELSE [val |-> "nil", ok |-> FALSE]

Unwrap(e) == wrappedErr[e]

\* A call that recurses or loops for ever returns nothing: NoReturn.  A walk
\* that has followed more links than there are nodes is on a cycle, which is
\* what the fuel argument detects.
NoReturn == [ok |-> FALSE]

\* an Error that joins code and cause with a blank instead of ": "
RECURSIVE Error_NoColon(_, _)
Error_NoColon(err, fuel) ==
  IF err.k = "plain" THEN [ok |-> TRUE, s |-> err.msg]
  ELSE IF wrappedErr[err.id] # Nil
         THEN IF fuel = 0 THEN NoReturn
              ELSE LET r == Error_NoColon(wrappedErr[err.id], fuel - 1)
                   IN IF r.ok THEN [ok |-> TRUE, s |-> Sprintf(<<"%s", " ", "%s">>, <<code[err.id], r.s>>)]
                      ELSE NoReturn
         ELSE [ok |-> TRUE, s |-> code[err.id]]

\* err.Error() for an error value that is not nil
RECURSIVE Error(_, _)
Error(err, fuel) ==
  IF err.k = "plain" THEN [ok |-> TRUE, s |-> err.msg]
  ELSE IF wrappedErr[err.id] # Nil
         THEN IF fuel = 0 THEN NoReturn
              ELSE LET r == Error(wrappedErr[err.id], fuel - 1)
                   IN IF r.ok THEN [ok |-> TRUE, s |-> Sprintf(<<"%s", ": ", "%s">>, <<code[err.id], r.s>>)]
                      ELSE NoReturn
         ELSE [ok |-> TRUE, s |-> code[err.id]]

\* an Is that compares the codes without the type assertion
Is_CodeOnly(e, target) == IF target.k # "node" THEN FALSE ELSE code[e] = code[target.id]

\* e.Is(target)
Is(e, target) == IF target.k # "node" THEN FALSE ELSE IF ctype[target.id] # ctype[e] THEN FALSE ELSE code[e] = code[target.id]

NotFound == [ok |-> TRUE, found |-> FALSE, node |-> 0]
Found(n) == [ok |-> TRUE, found |-> TRUE, node |-> n]

\* the method e.As(target) with target of type **Error[T]
RECURSIVE ErrorAs(_, _, _)
ErrorAs(e, T, fuel) ==
  IF ctype[e] = T THEN Found(e)
  ELSE IF wrappedErr[e] # Nil /\ wrappedErr[e].k = "node"
         THEN IF fuel = 0 THEN NoReturn ELSE ErrorAs(wrappedErr[e].id, T, fuel - 1)
         ELSE NotFound

\* the standard library's errors.As(err, &zerr) with zerr of type *Error[T]:
\* per chain position the assignability test, then the As method, then Unwrap
RECURSIVE errorsAs(_, _, _)
errorsAs(err, T, fuel) ==
  IF err = Nil THEN NotFound
  ELSE IF err.k = "plain" THEN NotFound
  ELSE IF ctype[err.id] = T THEN Found(err.id)
  ELSE LET r == ErrorAs(err.id, T, nNodes)
       IN IF ~r.ok THEN NoReturn
          ELSE IF r.found THEN r
          ELSE IF Unwrap(err.id) = Nil THEN NotFound
          ELSE IF fuel = 0 THEN NoReturn
          ELSE errorsAs(Unwrap(err.id), T, fuel - 1)

\* the callbacks given to the helper As
Fns == {[f |-> "get", key |-> "k1"], [f |-> "codeEq", c |-> <<"a">>]}

Apply(fn, zerr) ==
  IF fn.f = "code" THEN Code(zerr)
  ELSE IF fn.f = "get" THEN Get(zerr, fn.key)
  ELSE Code(zerr) = fn.c

\* a helper As that hands fn the error it was given instead of the node found
As_OnOuter(err, T, fn) ==
  LET r == errorsAs(err, T, nNodes)
  IN IF ~r.ok THEN NoReturn
     ELSE IF r.found THEN [ok |-> TRUE, found |-> TRUE, val |-> [ptr |-> "val", v |-> Apply(fn, err.id)], calls |-> <<err.id>>]
     ELSE [ok |-> TRUE, found |-> FALSE, val |-> [ptr |-> "nil"], calls |-> <<>>]

\* the helper As[T, V](err, fn); calls lists the nodes fn was called on
As(err, T, fn) ==
  LET r == errorsAs(err, T, nNodes)
  IN IF ~r.ok THEN NoReturn
     ELSE IF r.found THEN [ok |-> TRUE, found |-> TRUE, val |-> [ptr |-> "val", v |-> Apply(fn, r.node)], calls |-> <<r.node>>]
     ELSE [ok |-> TRUE, found |-> FALSE, val |-> [ptr |-> "nil"], calls |-> <<>>]

\* a HasCode that compares the code of the error it was given
HasCode_OuterCode(err, T, c) ==
  LET r == errorsAs(err, T, nNodes)
  IN IF ~r.ok THEN NoReturn
     ELSE IF r.found THEN [ok |-> TRUE, result |-> (Code(err.id) = c)]
     ELSE [ok |-> TRUE, result |-> FALSE]

HasCode(err, T, c) ==
  LET r == errorsAs(err, T, nNodes)
  IN IF ~r.ok THEN NoReturn
     ELSE IF r.found THEN [ok |-> TRUE, result |-> (Code(r.node) = c)]
     ELSE [ok |-> TRUE, result |-> FALSE]

\* a projection that emits the tags attribute also for an empty tag set
tagsAttr_Always(e) == <<[key |-> "tags", kind |-> "any", val |-> GetTags(e)]>>

\* the attributes LogValue appends for the data, the tags and the stack
dataAttr(e) == IF Cardinality(DOMAIN data[e]) > 0 THEN <<[key |-> "data", kind |-> "group", val |-> data[e]]>> ELSE <<>>

tagsAttr(e) == IF tags[e] # {} THEN <<[key |-> "tags", kind |-> "any", val |-> GetTags(e)]>> ELSE <<>>

stackAttr(e) == IF stack[e] # NoStack THEN <<[key |-> "stack", kind |-> "string", val |-> stackString(stack[e])]>> ELSE <<>>

\* e.LogValue(): the attributes in the order they are appended
RECURSIVE LogValue(_, _)
LogValue(e, fuel) ==
  LET msg == Error(NodeRef(e), nNodes)
      base == <<[key |-> "code", kind |-> "string", val |-> code[e]], [key |-> "error", kind |-> "string", val |-> msg.s]>>
      w == IF wrappedErr[e] = Nil THEN [ok |-> TRUE]
           ELSE IF wrappedErr[e].k = "node"
                  THEN IF fuel = 0 THEN NoReturn ELSE LogValue(wrappedErr[e].id, fuel - 1)
                  ELSE [ok |-> TRUE]
      wrappedAttr == IF wrappedErr[e] = Nil THEN <<>>
                     ELSE IF wrappedErr[e].k = "node"
                            THEN <<[key |-> "wrapped", kind |-> "group", val |-> w.attrs]>>
                            ELSE <<[key |-> "wrapped", kind |-> "string", val |-> Error(wrappedErr[e], nNodes).s]>>
  IN IF ~msg.ok \/ ~w.ok THEN NoReturn
     ELSE [ok |-> TRUE, attrs |-> base \o dataAttr(e) \o tagsAttr(e) \o wrappedAttr \o stackAttr(e)]

\* ---- calls of the readers ------------------------------------------------
\* A reader leaves the heap alone; ret records the call and what it returned.
\* A call that does not return has no next state.
CallError(e) ==
  /\ Error(NodeRef(e), nNodes).ok
  /\ ret' = [op |-> "Error", e |-> e, result |-> Error(NodeRef(e), nNodes).s]
  /\ UNCHANGED heap

CallUnwrap(e) ==
  /\ ret' = [op |-> "Unwrap", e |-> e, result |-> Unwrap(e)]
  /\ UNCHANGED heap

CallIs(e, target) ==
  /\ ret' = [op |-> "Is", e |-> e, target |-> target, result |-> Is(e, target)]
  /\ UNCHANGED heap

CallErrorAs(e, T) ==
  /\ ErrorAs(e, T, nNodes).ok
  /\ ret' = [op |-> "ErrorAs", e |-> e, T |-> T, found |-> ErrorAs(e, T, nNodes).found, node |-> ErrorAs(e, T, nNodes).node]
  /\ UNCHANGED heap

CallAs(err, T, fn) ==
  /\ As(err, T, fn).ok
  /\ ret' = [op |-> "As", err |-> err, T |-> T, fn |-> fn, found |-> As(err, T, fn).found, val |-> As(err, T, fn).val, calls |-> As(err, T, fn).calls]
  /\ UNCHANGED heap

CallHasCode(err, T, c) ==
  /\ HasCode(err, T, c).ok
  /\ ret' = [op |-> "HasCode", err |-> err, T |-> T, c |-> c, result |-> HasCode(err, T, c).result]
  /\ UNCHANGED heap

CallLogValue(e) ==
  /\ LogValue(e, nNodes).ok
  /\ ret' = [op |-> "LogValue", e |-> e, attrs |-> LogValue(e, nNodes).attrs]
  /\ UNCHANGED heap

CallGet(e, key) ==
  /\ ret' = [op |-> "Get", e |-> e, key |-> key, val |-> Get(e, key).val, found |-> Get(e, key).ok]
  /\ UNCHANGED heap

CallGetTags(e) ==
  /\ ret' = [op |-> "GetTags", e |-> e, result |-> GetTags(e)]
  /\ UNCHANGED heap

CallHasTags(e, ts) ==
  /\ ret' = [op |-> "HasTags", e |-> e, tags |-> ts, result |-> HasTags(e, ts)]
  /\ UNCHANGED heap

CallCode(e) ==
  /\ ret' = [op |-> "Code", e |-> e, result |-> Code(e)]
  /\ UNCHANGED heap

Next ==
  \/ \E in \in NewInputs, callers \in CallerInputs : New(in[1], in[2], callers)
  \/ \E e \in Live, k \in Keys, v \in Values : With(e, k, v)
  \/ \E e \in Live, ts \in TagInputs : Tags(e, ts)
  \/ \E e \in Live, err \in ErrValues : WithError(e, err)
  \/ \E e \in Live, in \in ErrorfInputs : Errorf(e, in[1], in[2])
  \/ \E e \in Live : CallError(e)
  \/ \E e \in Live : CallUnwrap(e)
  \/ \E e \in Live, target \in ErrValues : CallIs(e, target)
  \/ \E e \in Live, T \in CodeTypes : CallErrorAs(e, T)
  \/ \E err \in ErrValues, T \in CodeTypes, fn \in Fns : CallAs(err, T, fn)
  \/ \E err \in ErrValues, T \in CodeTypes, c \in Codes : CallHasCode(err, T, c)
  \/ \E e \in Live : CallLogValue(e)
  \/ \E e \in Live, k \in Keys : CallGet(e, k)
  \/ \E e \in Live : CallGetTags(e)
  \/ \E e \in Live, ts \in TagInputs : CallHasTags(e, ts)
  \/ \E e \in Live : CallCode(e)

Spec == Init /\ [][Next]_vars

\* the builder calls alone: the readers change nothing but ret
NextBuild ==
  \/ \E in \in NewInputs, callers \in CallerInputs : New(in[1], in[2], callers)
  \/ \E e \in Live, k \in Keys, v \in Values : With(e, k, v)
  \/ \E e \in Live, ts \in TagInputs : Tags(e, ts)
  \/ \E e \in Live, err \in ErrValues : WithError(e, err)
  \/ \E e \in Live, in \in ErrorfInputs : Errorf(e, in[1], in[2])

BuildSpec == Init /\ [][NextBuild]_vars

\* ---- vocabulary of the properties ----------------------------------------
\* the error value reached from err by i steps of Unwrap (Nil past the end)
RECURSIVE Nth(_, _)
Nth(err, i) == IF i = 0 THEN err ELSE IF err.k = "node" THEN Nth(wrappedErr[err.id], i - 1) ELSE Nil

\* the nodes of the chain that starts at err
ChainNodes(err) == {Nth(err, i).id : i \in {j \in 0..nNodes : Nth(err, j).k = "node"}}

\* the chain from node e ends: following Unwrap leaves the nodes within nNodes steps
Acyclic(e) == Nth(NodeRef(e), nNodes).k # "node"

\* the positions of the chain of err that hold a node of code type T
Matches(err, T) == {i \in 0..nNodes : Nth(err, i).k = "node" /\ ctype[Nth(err, i).id] = T}

Least(S) == CHOOSE i \in S : \A j \in S : i <= j

\* C1: HasCode(err, c) is true iff some node of code type C anywhere in the
\* chain of err has code c, also when the chain holds several nodes of type C.
C1_HasCodeAnyNode ==
  ret.op = "HasCode" =>
    (ret.result <=> \E n \in ChainNodes(ret.err) : ctype[n] = ret.T /\ code[n] = ret.c)

\* C2: As[C](err, fn) calls fn exactly once, on the first node of code type C
\* met from the outside, and returns (fn's result, true); without such a node
\* it returns (nil, false) and does not call fn.
C2_AsFirstMatch ==
  ret.op = "As" =>
    IF Matches(ret.err, ret.T) # {}
      THEN LET n == Nth(ret.err, Least(Matches(ret.err, ret.T))).id
           IN /\ ret.found
              /\ ret.calls = <<n>>
              /\ ret.val.ptr = "val"
              /\ ret.fn.f = "get" => ret.val.v = (IF "k1" \in DOMAIN data[n] THEN [val |-> data[n]["k1"], ok |-> TRUE] ELSE [val |-> "nil", ok |-> FALSE])
              /\ ret.fn.f = "codeEq" => ret.val.v = (code[n] = ret.fn.c)
      ELSE /\ ~ret.found
           /\ ret.calls = <<>>
           /\ ret.val.ptr = "nil"

\* C2 witness: As skipped an outer node of another code type and called fn on
\* an inner node, whose own data fn saw while the outer node holds other data.
C2_Witness ==
  /\ ret.op = "As"
  /\ ret.found
  /\ ret.err.k = "node"
  /\ ret.calls # <<ret.err.id>>
  /\ ret.fn.f = "get"
  /\ ret.val.v.ok
  /\ "k1" \notin DOMAIN data[ret.err.id]

\* C10: HasCode(err, c) equals found /\ result of As[C](err, fn) with
\* fn(node) = (node.Code() = c).
C10_HasCodeIsAsWithPredicate ==
  ret.op = "HasCode" =>
    LET a == As(ret.err, ret.T, [f |-> "codeEq", c |-> ret.c])
    IN a.ok /\ (ret.result <=> (a.found /\ a.val.v))

\* C10 witness: HasCode answered false on a chain where As finds a node of the
\* code type, and a deeper node of that type carries the code asked for.
C10_Witness ==
  /\ ret.op = "HasCode"
  /\ ~ret.result
  /\ Matches(ret.err, ret.T) # {}
  /\ \E n \in ChainNodes(ret.err) : ctype[n] = ret.T /\ code[n] = ret.c

\* C1 failing input: outer and inner share the code type, HasCode is asked for
\* the inner node's code and answers false.
C1_FailingInput ==
  /\ ret.op = "HasCode"
  /\ ~ret.result
  /\ \E n \in ChainNodes(ret.err) : ctype[n] = ret.T /\ code[n] = ret.c

\* the strings of ss joined by sep
RECURSIVE Join(_, _)
Join(ss, sep) == IF ss = <<>> THEN <<>> ELSE IF Len(ss) = 1 THEN ss[1] ELSE ss[1] \o sep \o Join(Tail(ss), sep)

\* the number of nodes on the chain of node e, when it ends
ChainLen(e) == Cardinality({i \in 0..nNodes : Nth(NodeRef(e), i).k = "node"})

\* the codes of the chain of e from the outside in, then the plain message
\* that ends the chain if there is one
Pieces(e) ==
  LET L == ChainLen(e)
      last == Nth(NodeRef(e), L)
  IN [i \in 1..L |-> code[Nth(NodeRef(e), i - 1).id]] \o (IF last.k = "plain" THEN <<last.msg>> ELSE <<>>)

C5_IsSameTypeSameCode ==
  ret.op = "Is" =>
    (ret.result <=> /\ ret.target.k = "node"
                    /\ ctype[ret.target.id] = ctype[ret.e]
                    /\ code[ret.target.id] = code[ret.e])

\* C5 witness: Is answered false for a target of another code type whose code
\* is textually equal, while the receiver has a cause.
C5_Witness ==
  /\ ret.op = "Is"
  /\ ~ret.result
  /\ ret.target.k = "node"
  /\ ctype[ret.target.id] # ctype[ret.e]
  /\ code[ret.target.id] = code[ret.e]
  /\ wrappedErr[ret.e] # Nil

\* C6: n.Get(k) returns (v, true) for the value v of the latest n.With(k, v)
\* on that node, and not-found when n.With(k, _) was never called on n, even
\* when a node of n's cause chain holds k.
C6_GetLatestLocalWrite ==
  /\ \A n \in Live, k \in Keys :
       Get(n, k) = IF lastWith[n][k] = "none" THEN [val |-> "nil", ok |-> FALSE] ELSE [val |-> lastWith[n][k], ok |-> TRUE]
  /\ ret.op = "Get" =>
       /\ ret.found <=> lastWith[ret.e][ret.key] # "none"
       /\ ret.found => ret.val = lastWith[ret.e][ret.key]

\* C6 witness: Get did not find a key that the node's direct cause holds.
C6_Witness ==
  /\ ret.op = "Get"
  /\ ~ret.found
  /\ wrappedErr[ret.e].k = "node"
  /\ wrappedErr[ret.e].id # ret.e
  /\ ret.key \in DOMAIN data[wrappedErr[ret.e].id]

HasKey(attrs, key) == \E i \in 1..Len(attrs) : attrs[i].key = key

Attr(attrs, key) == attrs[CHOOSE i \in 1..Len(attrs) : attrs[i].key = key]

\* C8: LogValue() always has code and error (the rendered chain message), has
\* data iff the data map is non-empty, tags iff the tag set is non-empty,
\* stack iff a snapshot was captured, wrapped iff a cause is set, and wrapped
\* is the cause's projection when it offers one, else its plain message.
C8_LogValueFields ==
  ret.op = "LogValue" =>
    LET a == ret.attrs
        e == ret.e
    IN /\ HasKey(a, "code") /\ Attr(a, "code").val = code[e]
       /\ HasKey(a, "error") /\ Attr(a, "error").val = Error(NodeRef(e), nNodes).s
       /\ HasKey(a, "data") <=> DOMAIN data[e] # {}
       /\ HasKey(a, "data") => Attr(a, "data").val = data[e]
       /\ HasKey(a, "tags") <=> tags[e] # {}
       /\ HasKey(a, "tags") => Attr(a, "tags").val = tags[e]
       /\ HasKey(a, "stack") <=> stack[e] # NoStack
       /\ HasKey(a, "wrapped") <=> wrappedErr[e] # Nil
       /\ HasKey(a, "wrapped") =>
            IF wrappedErr[e].k = "node"
              THEN Attr(a, "wrapped").kind = "group" /\ Attr(a, "wrapped").val = LogValue(wrappedErr[e].id, nNodes).attrs
              ELSE Attr(a, "wrapped").kind = "string" /\ Attr(a, "wrapped").val = wrappedErr[e].msg
       /\ \A i \in 1..Len(a) : a[i].key \in {"code", "error", "data", "tags", "wrapped", "stack"}

\* C8 witness: a node without data and without tags, with a captured stack and
\* a node as cause, was projected.
C8_Witness ==
  /\ ret.op = "LogValue"
  /\ DOMAIN data[ret.e] = {}
  /\ tags[ret.e] = {}
  /\ stack[ret.e] # NoStack
  /\ wrappedErr[ret.e].k = "node"
  /\ ~HasKey(ret.attrs, "data")
  /\ ~HasKey(ret.attrs, "tags")

\* C3: outer.WithError(inner) leaves outer with exactly its former tags and
\* the tags inner has at that moment, and a later Tags call on inner leaves
\* the tags of a distinct node that wraps it unchanged.
C3_TagsSnapshotAtWrap ==
  [][/\ (ret'.op = "WithError" /\ ret'.err.k = "node") =>
          tags'[ret'.e] = tags[ret'.e] \cup tags[ret'.err.id]
     /\ ret'.op = "Tags" =>
          \A o \in Live : (o # ret'.e /\ wrappedErr[o] = NodeRef(ret'.e)) => GetTags(o)' = GetTags(o)
    ]_vars

\* C3 witness: inner received a tag after a distinct node outer wrapped it,
\* and outer does not hold that tag.
C3_Witness ==
  /\ ret.op = "Tags"
  /\ \E o \in Live :
       /\ o # ret.e
       /\ wrappedErr[o] = NodeRef(ret.e)
       /\ ret.tags # {}
       /\ ret.tags \subseteq tags[ret.e]
       /\ ret.tags \cap tags[o] = {}

\* C7: a tag that is in a node's tag set stays in it across every call.
C7_TagsNeverShrink ==
  [][\A n \in Live : tags[n] \subseteq tags'[n]]_vars

\* C7 witness: a node that holds a tag had a cause that was already set
\* replaced by another one.
C7_Witness ==
  /\ ret.op \in {"WithError", "Errorf"}
  /\ ret.old # Nil
  /\ wrappedErr[ret.e] # ret.old
  /\ tags[ret.e] # {}

AllAcyclic == \A n \in Live : Acyclic(n)

====
